---- MODULE Spec2Model ----
(***************************************************************************)
(* Model of src/mlpack/methods/kmeans/max_variance_new_cluster_impl.hpp:   *)
(* the RASearch engine (construction, the three Search overloads,          *)
(* ResetQueryTree, Serialize, destruction) and                             *)
(* MaxVarianceNewCluster (EmptyCluster, Precalculate, Serialize).          *)
(*                                                                         *)
(* Vectors and matrix columns are TLA+ sequences; the C++ index i is the   *)
(* sequence index i + 1 (At).  A matrix is a function from its column      *)
(* indices 0..n-1 to columns, each a sequence of k slots.                  *)
(***************************************************************************)
EXTENDS Integers, Sequences, FiniteSets, TLC

\* ------------------------------------------------------------------ bounds
\* Number of reference points.
NumRef == 3
\* Number of query points of a query set or of the caller's query tree.
NumQuery == 2
\* Largest k a caller asks for.
MaxK == 2
\* Number of Serialize-loads in one engine's life.
MaxLoads == 2
\* Number of nodes of a tree (heap-shaped: the children of n are 2n, 2n+1).
NumNodes == 3

\* --------------------------------------------------------- program values
\* size_t() - 1, the neighbor sentinel: the largest size_t, written -1 here;
\* it is outside every vector's index range either way.
SizeMax == -1
\* SortPolicy::WorstDistance() (DBL_MAX for nearest-neighbor search).
WorstDistance == 1000

RefIdx == 0 .. NumRef - 1
QueryIdx == 0 .. NumQuery - 1
Nodes == 1 .. NumNodes

\* What an uninitialised size_t, or a vector element read out of bounds, can
\* hold: a valid index, or an index just past the end.
Garbage == {0, NumRef}

At(v, i) == v[i + 1]
InRange(v, i) == i >= 0 /\ i < Len(v)
Cols(m) == DOMAIN m
EmptyMat == [i \in {} |-> << >>]

Min(a, b) == IF a < b THEN a ELSE b

\* ------------------------------------------------------------ heap objects
NULL == <<"null", 0>>
CallerSet == <<"callerSet", 0>>
CallerTree == <<"callerTree", 0>>
CallerQueryTree == <<"callerQueryTree", 0>>
BuiltTree == <<"builtTree", 0>>
LoadedTree(n) == <<"loadedTree", n>>
LoadedSet(n) == <<"loadedSet", n>>
\* The point set a tree holds (Tree::Dataset()); a tree built over the
\* caller's matrix holds that matrix.
Dataset(t) ==
  CASE t[1] = "builtTree" -> CallerSet
    [] t[1] = "callerTree" -> <<"callerTreeData", 0>>
    [] t[1] = "loadedTree" -> <<"loadedTreeData", t[2]>>
    [] OTHER -> NULL
Objects ==
  {CallerSet, CallerTree, CallerQueryTree, BuiltTree, Dataset(CallerTree)}
    \cup {LoadedTree(n) : n \in 1 .. MaxLoads}
    \cup {LoadedSet(n) : n \in 1 .. MaxLoads}
    \cup {Dataset(LoadedTree(n)) : n \in 1 .. MaxLoads}
\* The objects the caller made and handed to the engine.
CallerObjects == {CallerSet, CallerTree, CallerQueryTree, Dataset(CallerTree)}

\* ----------------------------------------------------------- tree helpers
Children(n) == {c \in Nodes : c \div 2 = n}
Root == 1
\* RAQueryStat as constructed: Bound = WorstDistance, NumSamplesMade = 0.
InitStat == [bound |-> WorstDistance, samples |-> 0]
FreshTreeStat == [n \in Nodes |-> InitStat]

\* The old-from-new maps a rearranging tree builder produces: rotations of
\* 0..n-1 (the identity among them).
Rot(n, r) == [i \in 1 .. n |-> ((i - 1) + r) % n]
Perms(n) == {Rot(n, r) : r \in 0 .. n - 1}
IsPerm(v, n) == Len(v) = n /\ {v[i] : i \in 1 .. n} = 0 .. n - 1

VARIABLES
  phase,                 \* "none", "live", "destroyed", "crashed"
  rearranges,            \* tree::TreeTraits<Tree>::RearrangesDataset
  referenceTree, referenceSet, treeOwner, setOwner, naive, singleMode,
  oldFromNewReferences,
  deletes,               \* object -> number of times the engine deleted it
  loads,                 \* Serialize-loads so far
  refStat, qtStat,       \* node statistics: reference tree, caller's query tree
  neighbors, distances,  \* the output matrices the caller passed to the last
                         \* Search call, as that call left them (empty after
                         \* an operation that takes none)
  call                   \* what the last operation did

engineVars ==
  <<referenceTree, referenceSet, treeOwner, setOwner, naive, singleMode,
    oldFromNewReferences>>
searchVars ==
  <<phase, rearranges, referenceTree, referenceSet, treeOwner, setOwner, naive,
    singleMode, oldFromNewReferences, deletes, loads, refStat, qtStat,
    neighbors, distances, call>>

\* The state of a MaxVarianceNewCluster and of the k-means run that calls it.
VARIABLES
  kmPhase,               \* "live", "failed" (exception), "corrupted"
  iteration,             \* MaxVarianceNewCluster::iteration
  variances,             \* MaxVarianceNewCluster::variances
  assignments,           \* MaxVarianceNewCluster::assignments
  oldCentroids, newCentroids, clusterCounts,   \* the caller's (KMeans)
  callerIteration,       \* the caller's iteration number
  kmCall                 \* what the last operation that wrote anything did,
                         \* cut to its name once the caller took the results

kmVars ==
  <<kmPhase, iteration, variances, assignments, oldCentroids, newCentroids,
    clusterCounts, callerIteration, kmCall>>
vars == <<searchVars, kmVars>>

\* ------------------------------------------- metric, candidate lists, rules
\* The points: reference point r lies at 2r; query point q of a separate
\* query set lies at 2q+1, and at 2q when the query set is the reference set.
RefPos(r) == 2 * r
QueryPos(q, sameSet) == IF sameSet THEN 2 * q ELSE 2 * q + 1
Abs(x) == IF x < 0 THEN -x ELSE x
\* MetricType::Evaluate.
Evaluate(q, r, sameSet) == Abs(QueryPos(q, sameSet) - RefPos(r))

\* A column of the result matrices: k neighbor slots and k distance slots.
NewCol(k, nfill, dfill) == [n |-> [j \in 1 .. k |-> nfill], d |-> [j \in 1 .. k |-> dfill]]

\* CandidateList.TryInsert: rejected unless strictly better than some slot;
\* otherwise inserted at the first slot it beats, the rest shifted down.
InsertNeighbor(col, d, r) ==
  LET k == Len(col.d)
      better == {j \in 1 .. k : d < col.d[j]}
  IN  IF better = {} THEN col
      ELSE LET pos == CHOOSE j \in better : \A x \in better : j <= x
           IN  [n |-> [j \in 1 .. k |->
                         IF j < pos THEN col.n[j]
                         ELSE IF j = pos THEN r ELSE col.n[j - 1]],
                d |-> [j \in 1 .. k |->
                         IF j < pos THEN col.d[j]
                         ELSE IF j = pos THEN d ELSE col.d[j - 1]]]

\* RASearchRules::BaseCase(queryIndex, referenceIndex).
BaseCase(col, q, r, sameSet) ==
  IF sameSet /\ q = r THEN col
  ELSE InsertNeighbor(col, Evaluate(q, r, sameSet), r)

RECURSIVE RunBaseCases(_, _, _, _)
\* BaseCase on query q and each reference point of S, in increasing order.
RunBaseCases(col, q, S, sameSet) ==
  IF S = {} THEN col
  ELSE LET r == CHOOSE x \in S : \A y \in S : x <= y
       IN  RunBaseCases(BaseCase(col, q, r, sameSet), q, S \ {r}, sameSet)

\* The result buffers after BaseCase ran on every pair of `pairs`.
Results(nq, k, nfill, pairs, sameSet) ==
  [i \in 0 .. nq - 1 |->
     RunBaseCases(NewCol(k, nfill, WorstDistance), i,
                  {r \in RefIdx : <<i, r>> \in pairs}, sameSet)]
NeighborsOf(res) == [i \in DOMAIN res |-> res[i].n]
DistancesOf(res) == [i \in DOMAIN res |-> res[i].d]

\* RAUtil::MinimumSamplesReqd and RAUtil::ObtainDistinctSamples: numSamples
\* distinct indices of the reference set, 0 <= numSamples <= n_cols.
DistinctSampleSets == SUBSET RefIdx

\* The pairs a single-tree or dual-tree traversal runs BaseCase on: every
\* query against the reference points S it samples or visits.
TraversalPairs(nq, S) == {<<i, r>> : i \in 0 .. nq - 1, r \in S}

\* What a dual-tree traversal that sampled S leaves in the statistics of the
\* query tree's nodes: a bound and a count of samples made.
TouchedStat == [bound |-> 0, samples |-> 1]
DualTraverseStat(stat, S) ==
  [n \in Nodes |-> IF S # {} THEN TouchedStat ELSE stat[n]]

NoCall ==
  [op |-> "none", k |-> 0, error |-> "none", samples |-> {}, evaluated |-> {},
   internalN |-> EmptyMat, internalD |-> EmptyMat, oldFromNewQueries |-> << >>,
   allocated |-> {}, freed |-> << >>, walks |-> {}, archive |-> << >>,
   argN |-> EmptyMat, argD |-> EmptyMat, before |-> << >>,
   outOfBounds |-> FALSE]

\* ------------------------------------------------------------ the archive
\* What a saved engine leaves in an archive: the mode flags and, for a tree
\* engine, the old-from-new map it held (empty unless it built a rearranging
\* tree itself).
Archives(rearr) ==
  {[naive |-> TRUE, singleMode |-> FALSE, oldFromNew |-> << >>]}
    \cup {[naive |-> FALSE, singleMode |-> s, oldFromNew |-> m] :
            s \in BOOLEAN,
            m \in {<< >>} \cup (IF rearr THEN Perms(NumRef) ELSE {})}

\* The caller has taken the results of the previous operation.
Idle == call = NoCall


\* aux::BuildTree: a rearranging tree type fills oldFromNew with the
\* permutation it applied; any other tree type leaves it alone.
BuildTreeMaps(rearr, n, oldFromNew) == IF rearr THEN Perms(n) ELSE {oldFromNew}

\* RASearch(referenceSetIn, naive, singleMode, ...).
ConstructFromSet ==
  /\ UNCHANGED kmVars
  /\ phase = "none"
  /\ \E naiveIn \in BOOLEAN, singleIn \in BOOLEAN :
       \E map \in (IF naiveIn THEN {<< >>}
                    ELSE BuildTreeMaps(rearranges, NumRef, << >>)) :
         /\ referenceTree' = (IF naiveIn THEN NULL ELSE BuiltTree)
         /\ referenceSet' = (IF naiveIn THEN CallerSet ELSE Dataset(BuiltTree))
         /\ treeOwner' = ~naiveIn
         /\ setOwner' = FALSE
         /\ naive' = naiveIn
         /\ singleMode' = (~naiveIn /\ singleIn)
         /\ oldFromNewReferences' = map
  /\ phase' = "live"
  /\ refStat' = FreshTreeStat
  /\ call' = [NoCall EXCEPT !.op = "ConstructFromSet"]
  /\ neighbors' = EmptyMat
  /\ distances' = EmptyMat
  /\ UNCHANGED <<rearranges, deletes, loads, qtStat>>

\* RASearch(referenceTree, singleMode, ...).
ConstructFromTree ==
  /\ UNCHANGED kmVars
  /\ phase = "none"
  /\ \E singleIn \in BOOLEAN : singleMode' = singleIn
  /\ referenceTree' = CallerTree
  /\ referenceSet' = Dataset(CallerTree)
  /\ treeOwner' = FALSE
  /\ setOwner' = FALSE
  /\ naive' = FALSE
  /\ oldFromNewReferences' = << >>
  /\ phase' = "live"
  /\ refStat' = FreshTreeStat
  /\ call' = [NoCall EXCEPT !.op = "ConstructFromTree"]
  /\ neighbors' = EmptyMat
  /\ distances' = EmptyMat
  /\ UNCHANGED <<rearranges, deletes, loads, qtStat>>

\* `delete obj` when cond holds.
DeleteIf(del, cond, obj) ==
  IF cond /\ obj \in DOMAIN del THEN [del EXCEPT ![obj] = @ + 1] ELSE del

\* Mutant of DestructorDeletes: the tree is deleted whoever owns it.
DestructorDeletesAnyTree(del) ==
  DeleteIf(DeleteIf(del, referenceTree # NULL, referenceTree),
           setOwner, referenceSet)
\* What ~RASearch() deletes.
DestructorDeletes(del) ==
  DeleteIf(DeleteIf(del, treeOwner /\ referenceTree # NULL, referenceTree),
           setOwner, referenceSet)

\* ~RASearch().
Destroy ==
  /\ UNCHANGED kmVars
  /\ phase = "live"
  /\ Idle
  /\ deletes' = DestructorDeletes(deletes)
  /\ phase' = "destroyed"
  /\ call' = [NoCall EXCEPT !.op = "Destroy"]
  /\ UNCHANGED <<rearranges, referenceTree, referenceSet, treeOwner, setOwner,
                 naive, singleMode, oldFromNewReferences, loads,
                 refStat, qtStat>>
  /\ neighbors' = EmptyMat
  /\ distances' = EmptyMat

\* ------------------------------------------------- Search(querySet, k, ...)
\* oldFromNew[x], the read being out of bounds when x is no index of it: the
\* read then yields whatever lies there (g).
Translate(oldFromNew, x, g) == IF InRange(oldFromNew, x) THEN At(oldFromNew, x) ELSE g

\* "Query indices need to be mapped": temporary distance and neighbor matrices.
QueryTempNeeded == rearranges /\ ~singleMode /\ ~naive
\* "All indices need mapping": a temporary neighbor matrix.
RefTempNeeded == rearranges /\ treeOwner
\* The matrices Search(querySet) allocates with new.
AllocatedQuerySet ==
  (IF QueryTempNeeded THEN {"D1", "N1"} ELSE {})
    \cup (IF RefTempNeeded THEN {"N2"} ELSE {})
\* Where neighborPtr and distancePtr point once the allocation is done.
NeighborPtrQuerySet ==
  IF RefTempNeeded THEN "N2" ELSE IF QueryTempNeeded THEN "N1" ELSE "caller"
DistancePtrQuerySet == IF QueryTempNeeded THEN "D1" ELSE "caller"

\* Mutant of RemapKind: reference indices are mapped whether or not the
\* engine owns the tree.
RemapKindIgnoringOwner ==
  IF ~rearranges THEN "none"
  ELSE IF ~singleMode /\ ~naive THEN "both"
  ELSE "refs"
\* The branch of the final mapping pass Search(querySet) takes.
RemapKind ==
  IF ~rearranges THEN "none"
  ELSE IF ~singleMode /\ ~naive /\ treeOwner THEN "both"
  ELSE IF ~singleMode /\ ~naive THEN "queries"
  ELSE IF treeOwner THEN "refs"
  ELSE "none"

\* The matrices the mapping pass of Search(querySet) deletes, in order.
FreedQuerySet(kind) ==
  IF kind = "both" \/ kind = "queries"
    THEN <<NeighborPtrQuerySet, DistancePtrQuerySet>>
  ELSE IF kind = "refs" THEN <<NeighborPtrQuerySet>>
  ELSE << >>

\* The internal columns written to output column c, and the last of them.
Sources(n, colMap, g, c) == {i \in 0 .. n - 1 : Translate(colMap, i, g) = c}
LastOf(S) == CHOOSE x \in S : \A y \in S : y <= x

\* Mutant of MapBothNeighbors: the neighbor index is copied, not translated.
MapBothNeighborsUntranslated(intN, oldFromNewQ, oldFromNewR, k, g) ==
  LET n == Cardinality(DOMAIN intN)
  IN  [c \in 0 .. n - 1 |->
         LET src == Sources(n, oldFromNewQ, g, c)
         IN  IF src = {} THEN [j \in 1 .. k |-> g] ELSE intN[LastOf(src)]]
\* "We must map both query and reference indices."
MapBothNeighbors(intN, oldFromNewQ, oldFromNewR, k, g) ==
  LET n == Cardinality(DOMAIN intN)
  IN  [c \in 0 .. n - 1 |->
         LET src == Sources(n, oldFromNewQ, g, c)
         IN  IF src = {} THEN [j \in 1 .. k |-> g]
             ELSE [j \in 1 .. k |-> Translate(oldFromNewR, intN[LastOf(src)][j], g)]]
\* distances.col(oldFromNewQueries[i]) = distancePtr->col(i).
MapColumns(intM, oldFromNewQ, k, g) ==
  LET n == Cardinality(DOMAIN intM)
  IN  [c \in 0 .. n - 1 |->
         LET src == Sources(n, oldFromNewQ, g, c)
         IN  IF src = {} THEN [j \in 1 .. k |-> g] ELSE intM[LastOf(src)]]
\* "We must map reference indices only."
MapRefNeighbors(intN, oldFromNewR, k, g) ==
  [i \in DOMAIN intN |-> [j \in 1 .. k |-> Translate(oldFromNewR, intN[i][j], g)]]

\* The caller's neighbors after the mapping pass of Search(querySet).
RemapNeighborsQuerySet(kind, intN, oldFromNewQ, oldFromNewR, k, g) ==
  IF kind = "both" THEN MapBothNeighbors(intN, oldFromNewQ, oldFromNewR, k, g)
  ELSE IF kind = "queries" THEN MapColumns(intN, oldFromNewQ, k, g)
  ELSE IF kind = "refs" THEN MapRefNeighbors(intN, oldFromNewR, k, g)
  ELSE intN
\* The caller's distances after the mapping pass of Search(querySet).
RemapDistancesQuerySet(kind, intD, oldFromNewQ, k, g) ==
  IF kind = "both" \/ kind = "queries" THEN MapColumns(intD, oldFromNewQ, k, g)
  ELSE intD

\* Some read oldFromNew[x] of the mapping pass is out of bounds.
OutOfBoundsRefs(intN, oldFromNewR) ==
  \E i \in DOMAIN intN : \E j \in DOMAIN intN[i] : ~InRange(oldFromNewR, intN[i][j])
OutOfBoundsCols(n, oldFromNew) == \E i \in 0 .. n - 1 : ~InRange(oldFromNew, i)

\* Some subscript of the mapping pass of Search(querySet) is out of bounds.
OutOfBoundsQuerySet(kind, intN, oldFromNewQ) ==
  \/ kind \in {"both", "refs"} /\ OutOfBoundsRefs(intN, oldFromNewReferences)
  \/ kind \in {"both", "queries"} /\ OutOfBoundsCols(Cardinality(DOMAIN intN), oldFromNewQ)

\* Naive mode of Search(querySet): BaseCase(i, distinctSamples[j]) for every
\* query i and every sample j.
NaivePairsQuerySet(nq, distinctSamples) ==
  {<<i, r>> : i \in 0 .. nq - 1, r \in distinctSamples}

\* referenceTree->IsLeaf().
IsLeaf(n) == Children(n) = {}

\* The pairs Search(querySet) runs BaseCase on, by mode.
PairsQuerySet(nq, S) ==
  IF naive THEN NaivePairsQuerySet(nq, S)
  ELSE IF singleMode THEN (IF ~IsLeaf(Root) THEN TraversalPairs(nq, S) ELSE {})
  ELSE TraversalPairs(nq, S)

\* A tree a search walks, with the statistics its nodes hold as the
\* traversal starts.
Walk(t, stat) == [tree |-> t, stat |-> stat]

SearchQuerySet ==
  /\ UNCHANGED kmVars
  /\ phase = "live"
  /\ Idle
  /\ \E k \in 1 .. MaxK, S \in SUBSET RefIdx, g \in Garbage :
       \E oldFromNewQueries \in
            (IF ~naive /\ ~singleMode
               THEN BuildTreeMaps(rearranges, NumQuery, << >>) ELSE {<< >>}) :
         \* set_size(k, n_cols) leaves the neighbor matrix uninitialised.
         \E res \in {Results(NumQuery, k, g, PairsQuerySet(NumQuery, S), FALSE)} :
         \E intN \in {NeighborsOf(res)}, intD \in {DistancesOf(res)}, kind \in {RemapKind} :
         \E oob \in {OutOfBoundsQuerySet(kind, intN, oldFromNewQueries)} :
         \E crash \in (IF oob THEN BOOLEAN ELSE {FALSE}) :
         LET rec == [op |-> "SearchQuerySet", k |-> k, error |-> "none",
                     samples |-> IF naive THEN S ELSE {},
                     evaluated |-> PairsQuerySet(NumQuery, S),
                     internalN |-> intN, internalD |-> intD,
                     oldFromNewQueries |-> oldFromNewQueries,
                     allocated |-> AllocatedQuerySet, freed |-> FreedQuerySet(kind),
                     walks |-> IF naive THEN {} ELSE {Walk(referenceTree, refStat)},
                     archive |-> << >>, argN |-> EmptyMat, argD |-> EmptyMat,
                     before |-> << >>,
                     outOfBounds |-> oob]
         IN  IF crash
               THEN /\ phase' = "crashed"
                    /\ call' = [rec EXCEPT !.error = "crash", !.freed = << >>]
                    /\ neighbors' = EmptyMat /\ distances' = EmptyMat
               ELSE /\ phase' = phase
                    /\ call' = rec
                    /\ neighbors' = RemapNeighborsQuerySet(kind, intN, oldFromNewQueries,
                                                            oldFromNewReferences, k, g)
                    /\ distances' = RemapDistancesQuerySet(kind, intD, oldFromNewQueries, k, g)
  /\ UNCHANGED <<rearranges, referenceTree, referenceSet, treeOwner, setOwner,
                 naive, singleMode, oldFromNewReferences, deletes, loads,
                 refStat, qtStat>>

\* ------------------------------------------------ Search(queryTree, k, ...)
\* Mutant of InvalidModeForQueryTree: single-tree mode is let through.
InvalidModeNaiveOnly == naive
\* "Make sure we are in dual-tree mode."
InvalidModeForQueryTree == singleMode \/ naive

\* The engine's fields and the node statistics, as an operation finds them.
Snapshot == <<engineVars, refStat, qtStat>>
\* What the matrices a caller passes in may hold: nothing, or older results.
CallerMatrices == {EmptyMat, [i \in {0} |-> <<0>>]}

\* The temporary neighbor matrix of Search(queryTree) and of Search(k).
OwnerTempNeeded == treeOwner /\ rearranges

SearchQueryTree ==
  /\ UNCHANGED kmVars
  /\ phase = "live"
  /\ Idle
  /\ IF InvalidModeForQueryTree
       THEN \* throw std::invalid_argument
            \E arg \in CallerMatrices :
              /\ call' = [NoCall EXCEPT !.op = "SearchQueryTree",
                                         !.error = "invalid_argument",
                                         !.argN = arg, !.argD = arg,
                                         !.before = Snapshot]
              /\ neighbors' = arg
              /\ distances' = arg
              /\ UNCHANGED <<phase, qtStat>>
       ELSE \E k \in 1 .. MaxK, S \in SUBSET RefIdx, g \in Garbage :
            \E res \in {Results(NumQuery, k, SizeMax, TraversalPairs(NumQuery, S), FALSE)} :
            \E intN \in {NeighborsOf(res)}, intD \in {DistancesOf(res)} :
            \E oob \in {OwnerTempNeeded /\ OutOfBoundsRefs(intN, oldFromNewReferences)} :
            \E crash \in (IF oob THEN BOOLEAN ELSE {FALSE}) :
            LET rec == [op |-> "SearchQueryTree", k |-> k, error |-> "none",
                        samples |-> {}, evaluated |-> TraversalPairs(NumQuery, S),
                        internalN |-> intN, internalD |-> intD,
                        oldFromNewQueries |-> << >>,
                        allocated |-> IF OwnerTempNeeded THEN {"N1"} ELSE {},
                        freed |-> IF OwnerTempNeeded THEN <<"N1">> ELSE << >>,
                        walks |-> {Walk(CallerQueryTree, qtStat),
                                   Walk(referenceTree, refStat)},
                        archive |-> << >>, argN |-> EmptyMat, argD |-> EmptyMat,
                     before |-> << >>,
                     outOfBounds |-> oob]
            IN  /\ qtStat' = DualTraverseStat(qtStat, S)
                /\ IF crash
                     THEN /\ phase' = "crashed"
                          /\ call' = [rec EXCEPT !.error = "crash", !.freed = << >>]
                          /\ neighbors' = EmptyMat /\ distances' = EmptyMat
                     ELSE /\ phase' = phase
                          /\ call' = rec
                          /\ neighbors' =
                               (IF OwnerTempNeeded
                                  THEN MapRefNeighbors(intN, oldFromNewReferences, k, g)
                                  ELSE intN)
                          /\ distances' = intD
  /\ UNCHANGED <<rearranges, referenceTree, referenceSet, treeOwner, setOwner,
                 naive, singleMode, oldFromNewReferences, deletes, loads, refStat>>

\* ----------------------------------------------------------- Search(k, ...)
\* Naive mode of Search(k): "The naive brute-force solution", BaseCase(i, j)
\* for all i and j of the reference set; distinctSamples is not read.
NaivePairsMono(distinctSamples) == {<<i, j>> : i \in RefIdx, j \in RefIdx}

\* The pairs Search(k) runs BaseCase on, by mode.
PairsMono(S) ==
  IF naive THEN NaivePairsMono(S) ELSE TraversalPairs(NumRef, S)

SearchMono ==
  /\ UNCHANGED kmVars
  /\ phase = "live"
  /\ Idle
  /\ \E k \in 1 .. MaxK, S \in SUBSET RefIdx, g \in Garbage :
     \E res \in {Results(NumRef, k, SizeMax, PairsMono(S), TRUE)} :
     \E intN \in {NeighborsOf(res)}, intD \in {DistancesOf(res)} :
     \E oob \in {OwnerTempNeeded /\ (\/ OutOfBoundsRefs(intN, oldFromNewReferences)
                                      \/ OutOfBoundsCols(NumRef, oldFromNewReferences))} :
     \E crash \in (IF oob THEN BOOLEAN ELSE {FALSE}) :
     LET dual == ~naive /\ ~singleMode
         rec == [op |-> "SearchMono", k |-> k, error |-> "none",
                 samples |-> IF naive THEN S ELSE {}, evaluated |-> PairsMono(S),
                 internalN |-> intN, internalD |-> intD,
                 oldFromNewQueries |-> << >>,
                 allocated |-> IF OwnerTempNeeded THEN {"D1", "N1"} ELSE {},
                 freed |-> IF OwnerTempNeeded THEN <<"N1", "D1">> ELSE << >>,
                 walks |-> IF naive THEN {} ELSE {Walk(referenceTree, refStat)},
                 archive |-> << >>, argN |-> EmptyMat, argD |-> EmptyMat,
                 before |-> << >>,
                 outOfBounds |-> oob]
     IN  /\ refStat' = (IF dual THEN DualTraverseStat(refStat, S) ELSE refStat)
                /\ IF crash
              THEN /\ phase' = "crashed"
                   /\ call' = [rec EXCEPT !.error = "crash", !.freed = << >>]
                   /\ neighbors' = EmptyMat /\ distances' = EmptyMat
              ELSE /\ phase' = phase
                   /\ call' = rec
                   /\ neighbors' =
                        (IF OwnerTempNeeded
                           THEN MapBothNeighbors(intN, oldFromNewReferences,
                                                 oldFromNewReferences, k, g)
                           ELSE intN)
                   /\ distances' =
                        (IF OwnerTempNeeded
                           THEN MapColumns(intD, oldFromNewReferences, k, g)
                           ELSE intD)
  /\ UNCHANGED <<rearranges, referenceTree, referenceSet, treeOwner, setOwner,
                 naive, singleMode, oldFromNewReferences, deletes, loads, qtStat>>

\* ---------------------------------------------------------- ResetQueryTree
NumChildren(n) == Cardinality(Children(n))
Child(n, i) == 2 * n + i

RECURSIVE ResetQueryTree(_, _)
RECURSIVE ResetChildren(_, _, _)
\* for (i = 0; i < queryNode->NumChildren(); i++) ResetQueryTree(&Child(i)).
ResetChildren(stat, node, i) ==
  IF i >= NumChildren(node) THEN stat
  ELSE ResetChildren(ResetQueryTree(stat, Child(node, i)), node, i + 1)
\* ResetQueryTree(queryNode): the node's statistic, then each child's subtree.
ResetQueryTree(stat, node) ==
  ResetChildren([stat EXCEPT ![node] = [bound |-> WorstDistance, samples |-> 0]],
                node, 0)

\* The caller resets the statistics of (a subtree of) its query tree.
CallResetQueryTree ==
  /\ UNCHANGED kmVars
  /\ phase = "live"
  /\ Idle
  /\ \E node \in Nodes : qtStat' = ResetQueryTree(qtStat, node)
  /\ call' = [NoCall EXCEPT !.op = "ResetQueryTree"]
  /\ UNCHANGED <<phase, rearranges, referenceTree, referenceSet, treeOwner,
                 setOwner, naive, singleMode, oldFromNewReferences, deletes,
                 loads, refStat>>
  /\ neighbors' = EmptyMat
  /\ distances' = EmptyMat

\* ---------------------------------------------------------------- Serialize
\* What Serialize writes to a saving archive.
SavedArchive ==
  [naive |-> naive, singleMode |-> singleMode,
   oldFromNew |-> IF naive THEN << >> ELSE oldFromNewReferences]

\* Serialize with a saving archive.
SerializeSave ==
  /\ UNCHANGED kmVars
  /\ phase = "live"
  /\ Idle
  /\ call' = [NoCall EXCEPT !.op = "Save", !.archive = SavedArchive,
                             !.before = Snapshot]
  /\ UNCHANGED <<phase, rearranges, referenceTree, referenceSet, treeOwner,
                 setOwner, naive, singleMode, oldFromNewReferences, deletes,
                 loads, refStat, qtStat>>
  /\ neighbors' = EmptyMat
  /\ distances' = EmptyMat

\* The deletions of a load in naive mode: the owned set, then the owned tree.
LoadNaiveDeletes(del) ==
  DeleteIf(DeleteIf(del, setOwner /\ referenceSet # NULL, referenceSet),
           treeOwner /\ referenceTree # NULL, referenceTree)
\* The deletions of a load in tree mode: the owned tree, then the owned set.
LoadTreeDeletes(del) ==
  DeleteIf(DeleteIf(del, treeOwner /\ referenceTree # NULL, referenceTree),
           setOwner /\ referenceSet # NULL, referenceSet)

\* Mutant of LoadedTreeOwner: treeOwner is left as it was.
LoadedTreeOwnerStale(a) == treeOwner
\* The ownership flags after a load.
LoadedSetOwner(a) == a.naive
LoadedTreeOwner(a) == ~a.naive

\* Serialize with a loading archive holding a.
SerializeLoad ==
  /\ UNCHANGED kmVars
  /\ phase = "live"
  /\ Idle
  /\ loads < MaxLoads
  /\ \E a \in Archives(rearranges) :
       /\ naive' = a.naive
       /\ singleMode' = a.singleMode
       /\ setOwner' = LoadedSetOwner(a)
       /\ treeOwner' = LoadedTreeOwner(a)
       /\ IF a.naive
            THEN /\ referenceSet' = LoadedSet(loads + 1)
                 /\ deletes' = LoadNaiveDeletes(deletes)
                 /\ referenceTree' = NULL
                 /\ oldFromNewReferences' = << >>
            ELSE /\ deletes' = LoadTreeDeletes(deletes)
                 /\ referenceTree' = LoadedTree(loads + 1)
                 /\ oldFromNewReferences' = a.oldFromNew
                 /\ referenceSet' = Dataset(LoadedTree(loads + 1))
       /\ call' = [NoCall EXCEPT !.op = "Load", !.archive = a]
  /\ loads' = loads + 1
  /\ refStat' = FreshTreeStat
  /\ neighbors' = EmptyMat
  /\ distances' = EmptyMat
  /\ UNCHANGED <<phase, rearranges, qtStat>>

\* The caller takes the results of the last operation; its output matrices
\* go out of scope.
Return ==
  /\ UNCHANGED kmVars
  /\ phase = "live"
  /\ call # NoCall
  /\ call' = NoCall
  /\ neighbors' = EmptyMat
  /\ distances' = EmptyMat
  /\ UNCHANGED <<phase, rearranges, referenceTree, referenceSet, treeOwner,
                 setOwner, naive, singleMode, oldFromNewReferences, deletes,
                 loads, refStat, qtStat>>

Next ==
  \/ ConstructFromSet
  \/ ConstructFromTree
  \/ Destroy
  \/ SearchQuerySet
  \/ SearchQueryTree
  \/ SearchMono
  \/ CallResetQueryTree
  \/ SerializeSave
  \/ SerializeLoad
  \/ Return


\* ================================================================== claims
\* The last operation was a Search call that returned to the caller.
Searched ==
  /\ call.op \in {"SearchQuerySet", "SearchQueryTree", "SearchMono"}
  /\ call.error = "none"
DualMode == ~naive /\ ~singleMode
Identity(n) == [i \in 1 .. n |-> i - 1]
\* The caller's column that holds the results of the tree-internal query
\* column i.
QueryColumn(i) ==
  IF call.op = "SearchQuerySet" /\ rearranges /\ DualMode
    THEN At(call.oldFromNewQueries, i)
  ELSE IF call.op = "SearchMono" /\ rearranges /\ treeOwner
    THEN At(oldFromNewReferences, i)
  ELSE i
\* Slot j of internal column i received a candidate.
Written(i, j) == call.internalD[i][j] # WorstDistance

\* C1: with a rearranging tree type and a reference tree the engine owns,
\* whose old-from-new map is the permutation its builder recorded, every
\* Search overload hands back translated results: the distances of internal
\* column i stand in the caller's column QueryColumn(i) (oldFromNewQueries[i]
\* in dual-tree Search(querySet), oldFromNewReferences[i] in Search(k), i
\* otherwise), every neighbor there is oldFromNewReferences[internal
\* neighbor], and every column of the output is written exactly once.
C1_ResultsTranslated ==
  (Searched /\ rearranges /\ treeOwner /\ IsPerm(oldFromNewReferences, NumRef)) =>
    /\ DOMAIN neighbors = DOMAIN call.internalN
    /\ DOMAIN distances = DOMAIN call.internalD
    /\ \A c \in DOMAIN neighbors :
         Cardinality({i \in DOMAIN call.internalN : QueryColumn(i) = c}) = 1
    /\ \A i \in DOMAIN call.internalN : \A j \in 1 .. call.k :
         /\ distances[QueryColumn(i)][j] = call.internalD[i][j]
         /\ InRange(oldFromNewReferences, call.internalN[i][j]) =>
              neighbors[QueryColumn(i)][j] =
                At(oldFromNewReferences, call.internalN[i][j])
\* A dual-tree Search(querySet) on an owned tree, both maps moving points,
\* with a neighbor whose translation differs from its internal index.
C1_Witness ==
  /\ Searched /\ rearranges /\ treeOwner /\ DualMode
  /\ IsPerm(oldFromNewReferences, NumRef)
  /\ call.op = "SearchQuerySet"
  /\ call.oldFromNewQueries # Identity(NumQuery)
  /\ \E i \in DOMAIN call.internalN : \E j \in 1 .. call.k :
       /\ Written(i, j)
       /\ neighbors[QueryColumn(i)][j] # call.internalN[i][j]
       /\ QueryColumn(i) # i

\* C2: with a reference tree the engine does not own, no Search overload
\* translates a neighbor value: internal column i arrives unchanged in the
\* caller's column i, or, in dual-tree Search(querySet) on a rearranging
\* tree type, in column oldFromNewQueries[i].
C2_NoTranslationWhenBorrowed ==
  (Searched /\ ~treeOwner) =>
    /\ DOMAIN neighbors = DOMAIN call.internalN
    /\ DOMAIN distances = DOMAIN call.internalD
    /\ \A i \in DOMAIN call.internalN :
         /\ neighbors[QueryColumn(i)] = call.internalN[i]
         /\ distances[QueryColumn(i)] = call.internalD[i]
\* A dual-tree Search(querySet) on a caller's tree that moved a column which
\* holds a candidate.
C2_Witness ==
  /\ Searched /\ ~treeOwner /\ rearranges /\ DualMode
  /\ referenceTree = CallerTree
  /\ call.op = "SearchQuerySet"
  /\ \E i \in DOMAIN call.internalN :
       /\ QueryColumn(i) # i
       /\ Written(i, 1)
       /\ neighbors[i] # call.internalN[i]

\* The caller's column of internal column i, when the map covers i.
SafeQueryColumn(i) ==
  IF call.op = "SearchQuerySet" /\ rearranges /\ DualMode
    THEN Translate(call.oldFromNewQueries, i, i)
  ELSE IF call.op = "SearchMono" /\ rearranges /\ treeOwner
    THEN Translate(oldFromNewReferences, i, i)
  ELSE i
\* C3: after every Search call the outputs are k x numQueries and every slot
\* no candidate was inserted into holds the sentinel: neighbor size_t(-1),
\* distance WorstDistance.
C3_UnwrittenSlotsHoldSentinel ==
  Searched =>
    /\ DOMAIN neighbors = DOMAIN call.internalN
    /\ \A i \in DOMAIN call.internalN :
         /\ Len(neighbors[i]) = call.k
         /\ Len(distances[i]) = call.k
         /\ \A j \in 1 .. call.k :
              ~Written(i, j) =>
                /\ neighbors[SafeQueryColumn(i)][j] = SizeMax
                /\ distances[SafeQueryColumn(i)][j] = WorstDistance

\* C4: Search(queryTree) in naive or single-tree mode throws before anything
\* happens (no BaseCase, no allocation, no tree walked, the caller's
\* matrices, the engine's fields and the node statistics as before); in
\* dual-tree mode it never throws invalid_argument.
C4_InvalidModeFailsFast ==
  call.op = "SearchQueryTree" =>
    IF singleMode \/ naive
      THEN /\ call.error = "invalid_argument"
           /\ call.evaluated = {}
           /\ call.allocated = {}
           /\ call.walks = {}
           /\ neighbors = call.argN
           /\ distances = call.argD
           /\ call.before = Snapshot
      ELSE call.error # "invalid_argument"
\* The call was refused in single-tree mode, the caller's matrices holding
\* older results.
C4_Witness ==
  /\ call.op = "SearchQueryTree"
  /\ call.error = "invalid_argument"
  /\ singleMode
  /\ neighbors # EmptyMat

\* C5: the engine deletes no object of the caller's, and no object twice.
C5_DeletesOnlyOwnedOnce ==
  \A o \in Objects :
    /\ deletes[o] <= 1
    /\ o \in CallerObjects => deletes[o] = 0
\* An engine that built its tree, loaded another and was destroyed: both
\* trees deleted.
C5_Witness ==
  /\ phase = "destroyed"
  /\ deletes[BuiltTree] = 1
  /\ deletes[LoadedTree(1)] = 1

\* Number of times b was deleted.
Frees(b) == Cardinality({x \in DOMAIN call.freed : call.freed[x] = b})
\* C6: every temporary matrix a Search call allocated is deleted exactly
\* once before the call returns, and nothing else is deleted.
C6_TemporariesReleasedOnce ==
  Searched =>
    /\ \A b \in call.allocated : Frees(b) = 1
    /\ \A x \in DOMAIN call.freed : call.freed[x] \in call.allocated

\* C7: in naive mode Search(querySet) and Search(k) run BaseCase exactly on
\* the pairs of a query point and a sampled reference point.
C7_NaiveEvaluatesSamplesOnly ==
  (Searched /\ naive) =>
    call.evaluated =
      {<<q, r>> : q \in DOMAIN call.internalN, r \in call.samples}

\* C8: after a Serialize-load the engine holds exactly the loaded form, the
\* ownership flags matching it; a Serialize-save changes no field.
C8_LoadResetsOwnership ==
  /\ call.op = "Load" =>
       /\ naive = call.archive.naive
       /\ IF naive
            THEN /\ referenceTree = NULL
                 /\ oldFromNewReferences = << >>
                 /\ ~treeOwner
                 /\ setOwner
                 /\ referenceSet = LoadedSet(loads)
            ELSE /\ referenceTree = LoadedTree(loads)
                 /\ treeOwner
                 /\ ~setOwner
                 /\ referenceSet = Dataset(referenceTree)
  /\ call.op = "Save" => call.before = Snapshot
\* A naive archive loaded into an engine that owned the tree it had built.
C8_Witness ==
  /\ call.op = "Load"
  /\ naive
  /\ deletes[BuiltTree] = 1

\* C9: as the traversal of a Search call starts, every node of every tree it
\* walks holds the initial statistic.
C9_StatisticsResetBeforeSearch ==
  Searched => \A w \in call.walks : w.stat = FreshTreeStat

\* ===================================================== MaxVarianceNewCluster
\* Points and centroids lie on a line; a double is an exact fraction <<n, d>>
\* with d > 0, or <<1, 0>> (+inf), <<-1, 0>> (-inf, also standing for
\* -DBL_MAX), <<0, 0>> (NaN).  A size_t that wrapped below 0 is SizeMax.
RECURSIVE GCD(_, _)
GCD(a, b) == IF b = 0 THEN a ELSE GCD(b, a % b)
Sign(x) == IF x > 0 THEN 1 ELSE IF x < 0 THEN -1 ELSE 0
Frac(n, d) ==
  IF d = 0 THEN <<Sign(n), 0>>
  ELSE LET g == GCD(Abs(n), Abs(d))
       IN  <<(Sign(d) * n) \div g, Abs(d) \div g>>
Real(x) == <<x, 1>>
NaN == <<0, 0>>
PlusInf == <<1, 0>>
MinusInf == <<-1, 0>>
IsNaN(a) == a = NaN
IsFinite(a) == a[2] # 0
RMul(a, b) ==
  IF IsNaN(a) \/ IsNaN(b) THEN NaN
  ELSE IF ~IsFinite(a) \/ ~IsFinite(b) THEN <<Sign(a[1]) * Sign(b[1]), 0>>
  ELSE Frac(a[1] * b[1], a[2] * b[2])
RNeg(a) == <<-a[1], a[2]>>
RAdd(a, b) ==
  IF IsNaN(a) \/ IsNaN(b) THEN NaN
  ELSE IF ~IsFinite(a) /\ ~IsFinite(b) THEN (IF a = b THEN a ELSE NaN)
  ELSE IF ~IsFinite(a) THEN a
  ELSE IF ~IsFinite(b) THEN b
  ELSE Frac(a[1] * b[2] + b[1] * a[2], a[2] * b[2])
RSub(a, b) == RAdd(a, RNeg(b))
\* a / b, with x / 0 = +-inf and 0 / 0 = NaN.
RDiv(a, b) ==
  IF IsNaN(a) \/ IsNaN(b) THEN NaN
  ELSE IF ~IsFinite(b) THEN (IF IsFinite(a) THEN Real(0) ELSE NaN)
  ELSE IF ~IsFinite(a) THEN (IF b[1] < 0 THEN RNeg(a) ELSE a)
  ELSE Frac(a[1] * b[2], a[2] * b[1])
\* a < b; false when either is NaN.
RLess(a, b) ==
  IF IsNaN(a) \/ IsNaN(b) THEN FALSE
  ELSE IF ~IsFinite(a) THEN a = MinusInf /\ b # MinusInf
  ELSE IF ~IsFinite(b) THEN b = PlusInf
  ELSE a[1] * b[2] < b[1] * a[2]
\* std::pow(x, 2.0).
Square(a) == RMul(a, a)

\* ------------------------------------------------------------------ bounds
\* Number of data points.
NumPoints == 3
\* Number of clusters.
NumClusters == 3
\* Number of Lloyd iterations the caller runs.
MaxIter == 2

PointIdx == 0 .. NumPoints - 1
ClusterIdx == 0 .. NumClusters - 1
\* The data set: points 2j and 2j + 1 both lie at 4j.
Data(i) == 4 * (i \div 2)
\* Where the caller's centroids may lie.
CentroidGrid == {0, 3, 20}
\* What data.col(n_cols), a read past the end of the matrix, may yield.
GarbageCoord == {7}

\* size_t arithmetic, SizeMax standing for the value the wrap gives.
SizeDec(x) == IF x = 0 THEN SizeMax ELSE x - 1
SizeInc(x) == IF x = SizeMax THEN 0 ELSE x + 1
\* x <= 1 on size_t.
SizeAtMostOne(x) == x = 0 \/ x = 1
\* double(x) of a size_t: the wrapped value is about 1.8e19.
ToDouble(x) == IF x = SizeMax THEN PlusInf ELSE Real(x)


\* metric.Evaluate(a, b) on the line.
Distance(a, b) == LET d == RSub(a, b) IN IF RLess(d, Real(0)) THEN RNeg(d) ELSE d

RECURSIVE ClosestFrom(_, _, _, _, _)
\* The inner loop of Precalculate from centroid j on: the first centroid at
\* the least distance; n_cols (invalid) if none is closer than infinity.
ClosestFrom(x, centroids, j, minDistance, closestCluster) ==
  IF j >= Len(centroids) THEN closestCluster
  ELSE LET distance == Distance(Real(x), Real(At(centroids, j)))
       IN  IF RLess(distance, minDistance)
             THEN ClosestFrom(x, centroids, j + 1, distance, j)
             ELSE ClosestFrom(x, centroids, j + 1, minDistance, closestCluster)
ClosestCluster(x, centroids) ==
  ClosestFrom(x, centroids, 0, PlusInf, Len(centroids))

RECURSIVE SumSquares(_, _, _, _)
\* variances[c] after the first loop of Precalculate ran over points i..n-1.
SumSquares(c, centroids, assign, i) ==
  IF i >= NumPoints THEN Real(0)
  ELSE RAdd(IF At(assign, i) = c
              THEN Square(Distance(Real(Data(i)), Real(At(centroids, c))))
              ELSE Real(0),
            SumSquares(c, centroids, assign, i + 1))

\* Precalculate: the assignments, each point to its closest old centroid.
PrecalculateAssignments(centroids) ==
  [i \in 1 .. NumPoints |-> ClosestCluster(Data(i - 1), centroids)]
\* Precalculate: the variances, 0 for a cluster of at most one point.
VariancesOf(assign, centroids, counts) ==
  [c \in 1 .. Len(centroids) |->
     IF c <= Len(counts) /\ SizeAtMostOne(counts[c]) THEN Real(0)
     ELSE IF c <= Len(counts)
       THEN RDiv(SumSquares(c - 1, centroids, assign, 0), ToDouble(counts[c]))
     ELSE SumSquares(c - 1, centroids, assign, 0)]
PrecalculateVariances(centroids, counts) ==
  VariancesOf(PrecalculateAssignments(centroids), centroids, counts)

\* A policy that recalculates on every call.
NeedsPrecalculateAlways(iter) == TRUE
\* "If necessary, calculate the variances and assignments."
NeedsPrecalculate(iter) == iter # iteration \/ Len(assignments) # NumPoints

RECURSIVE MaxIndexFrom(_, _, _)
\* variances.max(maxVarCluster): the first index of the largest element.
MaxIndexFrom(v, j, best) ==
  IF j >= Len(v) THEN best
  ELSE IF RLess(At(v, best), At(v, j)) THEN MaxIndexFrom(v, j + 1, j)
  ELSE MaxIndexFrom(v, j + 1, best)
MaxVarCluster(v) == MaxIndexFrom(v, 1, 0)

RECURSIVE FurthestFrom(_, _, _, _, _, _)
\* The loop over the points of cluster m from point i on: <<furthestPoint,
\* maxDistance>>.
FurthestFrom(assign, centroid, m, i, furthestPoint, maxDistance) ==
  IF i >= NumPoints THEN <<furthestPoint, maxDistance>>
  ELSE IF At(assign, i) = m
         /\ RLess(maxDistance, Square(Distance(Real(Data(i)), centroid)))
    THEN FurthestFrom(assign, centroid, m, i + 1, i,
                      Square(Distance(Real(Data(i)), centroid)))
  ELSE FurthestFrom(assign, centroid, m, i + 1, furthestPoint, maxDistance)
\* furthestPoint starts at data.n_cols and maxDistance at -DBL_MAX.
Furthest(assign, centroid, m) ==
  FurthestFrom(assign, centroid, m, 0, NumPoints, MinusInf)

\* newCentroids.col(maxVarCluster) once the point x is taken out of it: the
\* factor divides by the size_t count - 1, the second term by count - 1.0.
DonorCentroid(centroid, count, x) ==
  RSub(RMul(centroid, RDiv(ToDouble(count), ToDouble(SizeDec(count)))),
       RMul(RDiv(Real(1), RSub(ToDouble(count), Real(1))), x))

\* variances[maxVarCluster] after the move, count being the decremented one.
DonorVariance(variance, count, maxDistance) ==
  IF SizeAtMostOne(count) THEN Real(0)
  ELSE RMul(RDiv(Real(1), ToDouble(count)),
            RSub(RMul(ToDouble(SizeInc(count)), variance), maxDistance))

NoKMCall ==
  [op |-> "none", ret |-> 0, error |-> "none", emptyCluster |-> 0,
   maxVarCluster |-> 0, furthestPoint |-> 0, precalculated |-> FALSE,
   assignmentsBefore |-> << >>, variancesBefore |-> << >>,
   countsBefore |-> << >>, centroidsBefore |-> << >>,
   iterationArg |-> 0, iterationBefore |-> 0, cachedAssignments |-> << >>,
   cachedVariances |-> << >>, prevOp |-> "none"]
\* What is left of a call's record once the caller has taken its results:
\* the name of the operation.
Taken(c) == [NoKMCall EXCEPT !.op = c.op]
\* The caller has taken the results of the previous operation.
ClusterIdle == kmCall = Taken(kmCall)

\* ------------------------------------------------- the k-means run (caller)
RECURSIVE SumOfCluster(_, _, _)
\* The sum of the points from i on that lie closest to centroid c.
SumOfCluster(c, centroids, i) ==
  IF i >= NumPoints THEN 0
  ELSE (IF ClosestCluster(Data(i), centroids) = c THEN Data(i) ELSE 0)
         + SumOfCluster(c, centroids, i + 1)
\* One Lloyd step: the number of points closest to each centroid ...
LloydCounts(centroids) ==
  [c \in 1 .. NumClusters |->
     Cardinality({i \in PointIdx : ClosestCluster(Data(i), centroids) = c - 1})]
\* ... and their mean, the zero vector for a cluster without points.
LloydCentroids(centroids) ==
  [c \in 1 .. NumClusters |->
     IF LloydCounts(centroids)[c] = 0 THEN Real(0)
     ELSE Frac(SumOfCluster(c - 1, centroids, 0), LloydCounts(centroids)[c])]
CentroidChoices == [1 .. NumClusters -> CentroidGrid]
\* The outcome of the Lloyd step for each placement of the centroids.
LloydStep ==
  {[oldCentroids |-> centroids, counts |-> LloydCounts(centroids),
    newCentroids |-> LloydCentroids(centroids)] :
     centroids \in CentroidChoices}


\* The caller's next iteration: the centroids moved and the Lloyd step ran.
NextIteration ==
  /\ UNCHANGED searchVars
  /\ kmPhase = "live"
  /\ ClusterIdle
  /\ callerIteration + 1 < MaxIter
  /\ callerIteration' = callerIteration + 1
  /\ \E step \in LloydStep :
       /\ oldCentroids' = step.oldCentroids
       /\ newCentroids' = step.newCentroids
       /\ clusterCounts' = step.counts
  /\ kmCall' = [NoKMCall EXCEPT !.op = "NextIteration"]
  /\ UNCHANGED <<kmPhase, iteration, variances, assignments>>

\* ------------------------------------------------------------ EmptyCluster
Put(v, i, x) == [v EXCEPT ![i + 1] = x]
\* Lines 56-72 with the point at x taken out of cluster m; the write to
\* assignments[p] lands outside the vector when p = data.n_cols.
MovePoint(e, m, p, x, maxDistance, asg, var) ==
  LET counts == Put(Put(clusterCounts, m, SizeDec(At(clusterCounts, m))), e,
                    SizeInc(At(Put(clusterCounts, m,
                                   SizeDec(At(clusterCounts, m))), e)))
      centroids == Put(Put(newCentroids, m,
                           DonorCentroid(At(newCentroids, m),
                                         At(clusterCounts, m), x)), e, x)
      var1 == Put(var, e, Real(0))
  IN  [counts |-> counts,
       centroids |-> centroids,
       assignments |-> IF p < NumPoints THEN Put(asg, p, e) ELSE asg,
       variances |-> Put(var1, m, DonorVariance(At(var1, m), At(counts, m),
                                                maxDistance))]

EmptyCluster ==
  /\ UNCHANGED searchVars
  /\ kmPhase = "live"
  /\ ClusterIdle
  /\ \E c \in ClusterIdx : At(clusterCounts, c) = 0
  /\ \E pre \in {NeedsPrecalculate(callerIteration)} :
     \E asg \in {IF pre THEN PrecalculateAssignments(oldCentroids)
                         ELSE assignments} :
     \E var \in {IF pre THEN VariancesOf(asg, oldCentroids, clusterCounts)
                         ELSE variances} :
     \E m \in {MaxVarCluster(var)} :
     \E f \in {Furthest(asg, At(newCentroids, m), m)} :
     \E e \in {c \in ClusterIdx : At(clusterCounts, c) = 0} :
     \E outcome \in (IF f[1] < NumPoints THEN {"read"}
                                          ELSE {"exception", "garbage"}) :
     \E x \in (IF f[1] < NumPoints THEN {Data(f[1])} ELSE GarbageCoord) :
     \E r \in {MovePoint(e, m, f[1], Real(x), f[2], asg, var)} :
       /\ iteration' = callerIteration
       /\ kmCall' = [op |-> "EmptyCluster",
                     ret |-> IF outcome = "exception" THEN 0 ELSE 1,
                     error |-> IF f[1] < NumPoints THEN "none" ELSE outcome,
                     emptyCluster |-> e, maxVarCluster |-> m,
                     furthestPoint |-> f[1], precalculated |-> pre,
                     assignmentsBefore |-> asg, variancesBefore |-> var,
                     countsBefore |-> clusterCounts,
                     centroidsBefore |-> newCentroids,
                     iterationArg |-> callerIteration,
                     iterationBefore |-> iteration,
                     cachedAssignments |-> assignments,
                     cachedVariances |-> variances,
                     prevOp |-> kmCall.op]
       /\ IF outcome = "exception"
            \* Mat::col() refused the index: line 56 ran, nothing after it.
            THEN /\ kmPhase' = "failed"
                 /\ assignments' = asg
                 /\ variances' = var
                 /\ newCentroids' =
                      Put(newCentroids, m,
                          RMul(At(newCentroids, m),
                               RDiv(ToDouble(At(clusterCounts, m)),
                                    ToDouble(SizeDec(At(clusterCounts, m))))))
                 /\ UNCHANGED clusterCounts
            ELSE /\ kmPhase' = IF outcome = "garbage" THEN "corrupted"
                                                       ELSE "live"
                 /\ assignments' = r.assignments
                 /\ variances' = r.variances
                 /\ newCentroids' = r.centroids
                 /\ clusterCounts' = r.counts
  /\ UNCHANGED <<oldCentroids, callerIteration>>

\* MaxVarianceNewCluster::Serialize, loading: the assignments are dropped.
ClusterSerializeLoad ==
  /\ UNCHANGED searchVars
  /\ kmPhase = "live"
  /\ ClusterIdle
  /\ assignments' = << >>
  /\ kmCall' = [NoKMCall EXCEPT !.op = "Load"]
  /\ UNCHANGED <<kmPhase, iteration, variances, oldCentroids, newCentroids,
                 clusterCounts, callerIteration>>

\* MaxVarianceNewCluster::Serialize, saving: nothing is written or changed.
ClusterSerializeSave ==
  /\ UNCHANGED searchVars
  /\ kmPhase = "live"
  /\ ClusterIdle
  /\ UNCHANGED kmVars

\* EmptyCluster has returned and the caller has read what it did.
ClusterReturn ==
  /\ UNCHANGED searchVars
  /\ kmPhase = "live"
  /\ ~ClusterIdle
  /\ kmCall' = Taken(kmCall)
  /\ UNCHANGED <<kmPhase, iteration, variances, assignments, oldCentroids,
                 newCentroids, clusterCounts, callerIteration>>

ClusterNext ==
  \/ NextIteration
  \/ EmptyCluster
  \/ ClusterSerializeLoad
  \/ ClusterSerializeSave
  \/ ClusterReturn

\* ----------------------------------------------------------- specifications
\* A search engine about to be constructed; no MaxVarianceNewCluster in use.
Init ==
  /\ phase = "none"
  /\ rearranges \in BOOLEAN
  /\ referenceTree = NULL
  /\ referenceSet = NULL
  /\ treeOwner = FALSE
  /\ setOwner = FALSE
  /\ naive = FALSE
  /\ singleMode = FALSE
  /\ oldFromNewReferences = << >>
  /\ deletes = [o \in Objects |-> 0]
  /\ loads = 0
  /\ refStat = FreshTreeStat
  /\ qtStat = FreshTreeStat
  /\ neighbors = EmptyMat
  /\ distances = EmptyMat
  /\ call = NoCall
  /\ kmPhase = "none"
  /\ iteration = SizeMax
  /\ variances = << >>
  /\ assignments = << >>
  /\ oldCentroids = << >>
  /\ newCentroids = << >>
  /\ clusterCounts = << >>
  /\ callerIteration = 0
  /\ kmCall = NoKMCall

\* A fresh MaxVarianceNewCluster, the caller having run its first Lloyd step;
\* no search engine in use.
ClusterInit ==
  /\ kmPhase = "live"
  /\ iteration = SizeMax
  /\ variances = << >>
  /\ assignments = << >>
  /\ \E step \in LloydStep :
       /\ oldCentroids = step.oldCentroids
       /\ newCentroids = step.newCentroids
       /\ clusterCounts = step.counts
  /\ callerIteration = 0
  /\ kmCall = NoKMCall
  /\ phase = "none"
  /\ rearranges = FALSE
  /\ referenceTree = NULL
  /\ referenceSet = NULL
  /\ treeOwner = FALSE
  /\ setOwner = FALSE
  /\ naive = FALSE
  /\ singleMode = FALSE
  /\ oldFromNewReferences = << >>
  /\ deletes = [o \in Objects |-> 0]
  /\ loads = 0
  /\ refStat = FreshTreeStat
  /\ qtStat = FreshTreeStat
  /\ neighbors = EmptyMat
  /\ distances = EmptyMat
  /\ call = NoCall

\* The rank-approximate search engine and its callers.
Spec == Init /\ [][Next]_vars
\* The empty-cluster policy and the k-means run that calls it.
SpecKM == ClusterInit /\ [][ClusterNext]_vars

\* ======================================================== claims, k-means
\* The last operation was a call of EmptyCluster, its results not yet taken.
EmptyClusterCalled == kmCall.op = "EmptyCluster" /\ ~ClusterIdle
RECURSIVE SumCounts(_, _)
SumCounts(counts, c) ==
  IF c >= Len(counts) THEN 0 ELSE At(counts, c) + SumCounts(counts, c + 1)
\* The squared distance of point i to the centroid cluster m had on entry.
DistanceBefore(i, m) ==
  Square(Distance(Real(Data(i)), At(kmCall.centroidsBefore, m)))

\* C10: EmptyCluster changes exactly one point and reports it: it returns 1;
\* the furthest point p of the maximum-variance cluster m gets
\* assignments[p] = emptyCluster and newCentroids.col(emptyCluster) =
\* data.col(p); clusterCounts[m] decreases by 1 and clusterCounts[emptyCluster]
\* increases by 1, so the sum of clusterCounts is unchanged; the assignment of
\* every other point and the count and centroid of every cluster other than m
\* and emptyCluster are unchanged.
C10_ExactlyOnePointMoves ==
  EmptyClusterCalled =>
    LET e == kmCall.emptyCluster
        m == kmCall.maxVarCluster
        p == kmCall.furthestPoint
    IN  /\ kmCall.ret = 1
        /\ p \in PointIdx
        /\ At(kmCall.assignmentsBefore, p) = m
        /\ \A i \in PointIdx :
             At(kmCall.assignmentsBefore, i) = m
               => ~RLess(DistanceBefore(p, m), DistanceBefore(i, m))
        /\ At(assignments, p) = e
        /\ At(newCentroids, e) = Real(Data(p))
        /\ At(clusterCounts, m) = At(kmCall.countsBefore, m) - 1
        /\ At(clusterCounts, e) = At(kmCall.countsBefore, e) + 1
        /\ SumCounts(clusterCounts, 0) = SumCounts(kmCall.countsBefore, 0)
        /\ \A i \in PointIdx \ {p} :
             At(assignments, i) = At(kmCall.assignmentsBefore, i)
        /\ \A c \in ClusterIdx \ {m, e} :
             /\ At(clusterCounts, c) = At(kmCall.countsBefore, c)
             /\ At(newCentroids, c) = At(kmCall.centroidsBefore, c)

\* C11: EmptyCluster runs Precalculate exactly when the iteration argument
\* differs from the stored iteration or the cached assignments' length
\* differs from the number of data points, and stores the argument; a call
\* that follows another call of the same iteration does not run it and works
\* on the assignments and variances the earlier calls left; the first call
\* after a Serialize-load runs it.  (kmCall holds the state the call found:
\* iterationBefore, cachedAssignments, cachedVariances, and in prevOp the
\* operation before it, saves aside.)
C11_PrecalculateExactlyWhenStale ==
  EmptyClusterCalled =>
    /\ kmCall.precalculated
         <=> (\/ kmCall.iterationArg # kmCall.iterationBefore
              \/ Len(kmCall.cachedAssignments) # NumPoints)
    /\ iteration = kmCall.iterationArg
    /\ kmCall.prevOp = "EmptyCluster" => ~kmCall.precalculated
    /\ ~kmCall.precalculated =>
         /\ kmCall.assignmentsBefore = kmCall.cachedAssignments
         /\ kmCall.variancesBefore = kmCall.cachedVariances
    /\ kmCall.precalculated =>
         /\ kmCall.assignmentsBefore = PrecalculateAssignments(oldCentroids)
         /\ kmCall.variancesBefore =
              PrecalculateVariances(oldCentroids, kmCall.countsBefore)
    /\ kmCall.prevOp = "Load" => kmCall.precalculated
\* A second call within one iteration, working on assignments that an
\* earlier call changed.
C11_Witness ==
  /\ EmptyClusterCalled
  /\ kmCall.prevOp = "EmptyCluster"
  /\ ~kmCall.precalculated
  /\ kmCall.assignmentsBefore # PrecalculateAssignments(oldCentroids)
\* The first call after a Serialize-load, in an iteration that had a call
\* before the load.
C11_WitnessAfterLoad ==
  /\ EmptyClusterCalled
  /\ kmCall.prevOp = "Load"
  /\ kmCall.iterationArg = kmCall.iterationBefore
  /\ kmCall.countsBefore # LloydCounts(oldCentroids)

\* C12: in every EmptyCluster call the donor cluster m differs from
\* emptyCluster, holds at least two points by clusterCounts and has a point
\* assigned to it, so furthestPoint is a valid point index when
\* data.col(furthestPoint) is read, clusterCounts[m] - 1 is not 0 as a
\* divisor and no count is decremented below 0.
C12_DonorIsSound ==
  EmptyClusterCalled =>
    LET m == kmCall.maxVarCluster
    IN  /\ m # kmCall.emptyCluster
        /\ At(kmCall.countsBefore, m) # SizeMax
        /\ At(kmCall.countsBefore, m) >= 2
        /\ \E i \in PointIdx : At(kmCall.assignmentsBefore, i) = m
        /\ kmCall.furthestPoint \in PointIdx
        /\ kmCall.error = "none"

\* ========================================================= claims, remapping
\* The last operation was a Search call that reached its mapping pass.
SearchRan ==
  call.op \in {"SearchQuerySet", "SearchQueryTree", "SearchMono"}
    /\ call.error # "invalid_argument"

\* C13: whenever a Search overload translates results in its mapping pass,
\* every index it uses to subscript oldFromNewReferences or oldFromNewQueries
\* lies within that vector, also for slots that received no candidate and
\* for an engine loaded from an archive whose old-from-new map is empty.
C13_RemapSubscriptsInBounds == SearchRan => ~call.outOfBounds
====
